---- MODULE Spec2Model ----
(***************************************************************************)
(* Pleasure Holidays backend: the package catalog (routes/packages.js,     *)
(* models/Package.js) and the booking lifecycle (routes/bookings.js,       *)
(* models/Booking.js, the admin booking-status route) as a state machine   *)
(* over the document store.  One action per route handler; a handler's     *)
(* reads, checks and writes are one step (requests are not interleaved     *)
(* in Spec and SpecPkg).  In the catalog and booking specifications the    *)
(* requester is req.user as the auth middleware resolved it; the accounts  *)
(* themselves (the auth, user and admin user routes) are the subject of    *)
(* SpecAuth and SpecReset.  SpecRace runs POST /api/bookings one await at   *)
(* a time, so that two requests interleave.                                *)
(***************************************************************************)
EXTENDS Integers, Sequences, FiniteSets, TLC

\* ------------------------------------------------------------------ bounds
MaxPackages == 1    \* packages ever created (ids are never reused)
MaxBookings == 1    \* bookings ever created in Spec and SpecApproval
MaxBooked == 2      \* bookings ever created in SpecBook
MaxReviews == 1     \* reviews ever added to one booking
MaxClock == 2       \* values of new Date() seen in a run
MaxUsers == 2       \* users ever registered
MaxNonce == 2       \* password reset tokens ever issued
MaxTime == 11       \* minutes on the clock of SpecReset
MaxRequests == 2    \* POST /api/bookings requests in SpecRace

\* ------------------------------------------------------------------- users
Customers == {"c1", "c2"}
Agents == {"a1", "a2"}
Admins == {"ad"}
Users == Customers \cup Agents \cup Admins

\* the users who send booking requests, and the customer who books
Clients == Customers \cup {"a1"} \cup Admins
Owner == "c1"

\* who creates packages, and who calls the admin-only routes
Staff == {"a1"} \cup Admins
Reviewers == {Owner} \cup Admins

\* role of an authenticated user (req.user.role)
Role(u) == IF u \in Admins THEN "admin" ELSE IF u \in Agents THEN "agent" ELSE "customer"

\* an unset ObjectId reference / Date / String of a document
NoUser == "none"
NoTime == 0

\* role gates of the auth middleware
adminOnly(u) == Role(u) = "admin"
agentOrAdmin(u) == Role(u) \in {"agent", "admin"}

\* ------------------------------------------------------------------- state
VARIABLES
  packages,   \* Package collection: live package id -> document
  pkgCount,   \* number of package ids handed out so far
  bookings,   \* Booking collection: sequence of documents, index = id
  clock,      \* the value new Date() returns now
  resp,       \* the last HTTP response: [op, code, data]
  users,      \* User collection: sequence of documents, index = id
  nonce,      \* number of values crypto.randomBytes has returned
  requests,   \* POST /api/bookings handlers between two awaits: id -> locals
  review      \* one document of the Review collection

vars == <<packages, pkgCount, bookings, clock, resp, users, nonce, requests, review>>

Reply(op, code, data) == [op |-> op, code |-> code, data |-> data]

\* ---------------------------------------------------------- Package model
\* catalog content of a package: the fields GET /api/packages filters on
Goa == [name |-> <<"G", "o", "a">>, description |-> <<"s", "e", "a">>,
        country |-> <<"I", "n">>, city |-> <<"G", "o", "a">>,
        category |-> "beach", days |-> 3, tags |-> {<<"s", "u", "n">>}]
Alps == [name |-> <<"A", "l", "p">>, description |-> <<"s", "k", "i">>,
         country |-> <<"C", "H">>, city |-> <<"Z", "u">>,
         category |-> "mountain", days |-> 7, tags |-> {<<"s", "k", "i">>}]
Catalog == {Goa, Alps}

\* schema defaults of a new Package document
PackageDefaults ==
  [isApproved |-> FALSE, approvedBy |-> NoUser, approvedAt |-> NoTime,
   isActive |-> TRUE, bookedSlots |-> 0]

\* left-biased merge of two documents ({...a, ...b} with b winning is Merge(b, a))
Merge(over, under) == over @@ under

\* isAvailable without the slot comparison
isAvailable_IgnoresSlots(p) == p.isActive /\ p.isApproved

\* packageSchema.methods.isAvailable
isAvailable(p) == p.isActive /\ p.isApproved /\ p.bookedSlots < p.totalSlots

\* packageSchema.methods.updateAvailability
updateAvailability(p, bookedSlots) == [p EXCEPT !.bookedSlots = bookedSlots]

\* request bodies that carry exactly the required fields
PlainPayloads ==
  {[totalSlots |-> 1, basePrice |-> 1000, info |-> Goa],
   [totalSlots |-> 2, basePrice |-> 50, info |-> Goa]}

\* the plain bodies and one of a package created inactive
BookablePayloads ==
  PlainPayloads \cup {[totalSlots |-> 1, basePrice |-> 50, info |-> Goa, isActive |-> FALSE]}

\* extra fields a request body may carry besides the required ones
ExtraFields ==
  {[isApproved |-> TRUE],
   [isApproved |-> TRUE, approvedBy |-> "ad", approvedAt |-> 1],
   [createdBy |-> "ad"],
   [isActive |-> FALSE],
   [bookedSlots |-> 1]}

CreatePayloads ==
  [totalSlots : {1}, basePrice : {50}, info : Catalog]
    \cup {Merge(x, [totalSlots |-> 1, basePrice |-> 50, info |-> Goa]) : x \in ExtraFields}

UpdatePayloads ==
  ExtraFields \cup {[basePrice |-> 1000], [isApproved |-> FALSE], [isActive |-> TRUE]}

\* POST /api/packages
CreatePackage(actor, payload) ==
  /\ IF ~agentOrAdmin(actor)
       THEN /\ resp' = Reply("CreatePackage", 403, <<>>)
            /\ UNCHANGED <<packages, pkgCount>>
       ELSE LET id == pkgCount + 1
                packageData == Merge([createdBy |-> actor], payload)
                created == Merge(packageData, PackageDefaults)
                newPackage ==
                  IF Role(actor) = "admin"
                    THEN [created EXCEPT !.isApproved = TRUE,
                                         !.approvedBy = actor,
                                         !.approvedAt = clock]
                    ELSE created
            IN /\ packages' = (id :> newPackage) @@ packages
               /\ pkgCount' = id
               /\ resp' = Reply("CreatePackage", 201, <<>>)
  /\ UNCHANGED <<bookings, clock, users, nonce, requests, review>>

\* the message of the 403 an agent gets on another user's package
NotYourPackage == <<"You can only edit packages created by you">>

\* an update route without the check of the package's creator
UpdatePackage_NoOwnerCheck(actor, id, payload) ==
  /\ IF ~agentOrAdmin(actor)
       THEN resp' = Reply("UpdatePackage", 403, <<>>) /\ UNCHANGED packages
       ELSE IF id \notin DOMAIN packages
         THEN resp' = Reply("UpdatePackage", 404, <<>>) /\ UNCHANGED packages
         ELSE /\ packages' = [packages EXCEPT ![id] = Merge(payload, @)]
              /\ resp' = Reply("UpdatePackage", 200, <<>>)
  /\ UNCHANGED <<pkgCount, bookings, clock, users, nonce, requests, review>>

\* PUT /api/packages/:id
UpdatePackage(actor, id, payload) ==
  /\ IF ~agentOrAdmin(actor)
       THEN resp' = Reply("UpdatePackage", 403, <<>>) /\ UNCHANGED packages
       ELSE IF id \notin DOMAIN packages
         THEN resp' = Reply("UpdatePackage", 404, <<>>) /\ UNCHANGED packages
         ELSE IF Role(actor) = "agent" /\ packages[id].createdBy # actor
           THEN resp' = Reply("UpdatePackage", 403, NotYourPackage) /\ UNCHANGED packages
           ELSE /\ packages' = [packages EXCEPT ![id] = Merge(payload, @)]
                /\ resp' = Reply("UpdatePackage", 200, <<>>)
  /\ UNCHANGED <<pkgCount, bookings, clock, users, nonce, requests, review>>

\* DELETE /api/packages/:id
DeletePackage(actor, id) ==
  /\ IF ~adminOnly(actor)
       THEN resp' = Reply("DeletePackage", 403, <<>>) /\ UNCHANGED packages
       ELSE IF id \notin DOMAIN packages
         THEN resp' = Reply("DeletePackage", 404, <<>>) /\ UNCHANGED packages
         ELSE /\ packages' = [i \in DOMAIN packages \ {id} |-> packages[i]]
              /\ resp' = Reply("DeletePackage", 200, <<>>)
  /\ UNCHANGED <<pkgCount, bookings, clock, users, nonce, requests, review>>

\* POST /api/packages/:id/approve
ApprovePackage(actor, id) ==
  /\ IF ~adminOnly(actor)
       THEN resp' = Reply("ApprovePackage", 403, <<>>) /\ UNCHANGED packages
       ELSE IF id \notin DOMAIN packages
         THEN resp' = Reply("ApprovePackage", 404, <<>>) /\ UNCHANGED packages
         ELSE IF packages[id].isApproved
           THEN resp' = Reply("ApprovePackage", 400, <<>>) /\ UNCHANGED packages
           ELSE /\ packages' = [packages EXCEPT ![id].isApproved = TRUE,
                                                ![id].approvedBy = actor,
                                                ![id].approvedAt = clock]
                /\ resp' = Reply("ApprovePackage", 200, <<>>)
  /\ UNCHANGED <<pkgCount, bookings, clock, users, nonce, requests, review>>

\* a rejection without the already-rejected guard
RejectPackage_NoGuard(actor, id) ==
  /\ IF ~adminOnly(actor)
       THEN resp' = Reply("RejectPackage", 403, <<>>) /\ UNCHANGED packages
       ELSE IF id \notin DOMAIN packages
         THEN resp' = Reply("RejectPackage", 404, <<>>) /\ UNCHANGED packages
         ELSE /\ packages' = [packages EXCEPT ![id].isApproved = FALSE,
                                              ![id].approvedBy = actor,
                                              ![id].approvedAt = clock]
              /\ resp' = Reply("RejectPackage", 200, <<>>)
  /\ UNCHANGED <<pkgCount, bookings, clock, users, nonce, requests, review>>

\* POST /api/packages/:id/reject
RejectPackage(actor, id) ==
  /\ IF ~adminOnly(actor)
       THEN resp' = Reply("RejectPackage", 403, <<>>) /\ UNCHANGED packages
       ELSE IF id \notin DOMAIN packages
         THEN resp' = Reply("RejectPackage", 404, <<>>) /\ UNCHANGED packages
         ELSE IF ~packages[id].isApproved /\ packages[id].approvedBy # NoUser
           THEN resp' = Reply("RejectPackage", 400, <<>>) /\ UNCHANGED packages
           ELSE /\ packages' = [packages EXCEPT ![id].isApproved = FALSE,
                                                ![id].approvedBy = actor,
                                                ![id].approvedAt = clock]
                /\ resp' = Reply("RejectPackage", 200, <<>>)
  /\ UNCHANGED <<pkgCount, bookings, clock, users, nonce, requests, review>>

\* ------------------------------------------------- GET /api/packages query
\* String.prototype lower-casing, as the 'i' option of $regex compares
Lower(c) ==
  CASE c = "G" -> "g" [] c = "A" -> "a" [] c = "I" -> "i" [] c = "C" -> "c"
    [] c = "H" -> "h" [] c = "Z" -> "z" [] c = "S" -> "s" [] OTHER -> c

LowerStr(s) == [i \in 1..Len(s) |-> Lower(s[i])]

\* { $regex: pat, $options: 'i' } on a string field, pat a literal text
RegexI(pat, s) ==
  \E i \in 0..(Len(s) - Len(pat)) :
    LowerStr(SubSeq(s, i + 1, i + Len(pat))) = LowerStr(pat)

\* an absent query parameter (undefined or '' are both falsy)
Absent == <<>>

\* the filter document built from req.query
destinationOr(q, p) == RegexI(q.destination, p.info.country) \/ RegexI(q.destination, p.info.city)

searchOr(q, p) ==
  \/ RegexI(q.search, p.info.name)
  \/ RegexI(q.search, p.info.description)
  \/ RegexI(q.search, p.info.country)
  \/ RegexI(q.search, p.info.city)
  \/ \E t \in p.info.tags : RegexI(q.search, t)

\* a base filter that forgets availability.isActive
baseFilter_ApprovedOnly(p) == p.isApproved = TRUE

\* query.$or is assigned by the destination filter and again by the search
orClause(q, p) ==
  IF q.search # Absent THEN searchOr(q, p)
  ELSE IF q.destination # Absent THEN destinationOr(q, p)
  ELSE TRUE

baseFilter(p) == p.isApproved = TRUE /\ p.isActive = TRUE

Matches(q, p) ==
  /\ baseFilter(p)
  /\ q.category # Absent => p.info.category = q.category[1]
  /\ orClause(q, p)
  /\ q.minPrice # Absent => p.basePrice >= q.minPrice[1]
  /\ q.maxPrice # Absent => p.basePrice <= q.maxPrice[1]
  /\ q.duration # Absent => p.info.days <= q.duration[1]

\* ids in creation order (sort by createdAt), ascending or descending
RECURSIVE SortedIds(_, _)
SortedIds(S, order) ==
  IF S = {} THEN <<>>
  ELSE LET m == IF order = "desc" THEN CHOOSE x \in S : \A y \in S : y <= x
                                  ELSE CHOOSE x \in S : \A y \in S : x <= y
       IN <<m>> \o SortedIds(S \ {m}, order)

\* .skip((page - 1) * limit).limit(limit)
Page(ids, page, limit) ==
  SubSeq(ids, (page - 1) * limit + 1,
         IF page * limit < Len(ids) THEN page * limit ELSE Len(ids))

\* Package.find(query).limit().skip().sort()
FindPackages(q) ==
  Page(SortedIds({id \in DOMAIN packages : Matches(q, packages[id])}, q.sortOrder),
       q.page, q.limit)

DefaultLimit == 12

Texts == {Absent, <<"g", "o">>, <<"s", "k", "i">>}

Queries ==
  [category : {Absent, <<"beach">>}, destination : Texts, search : Texts,
   minPrice : {Absent, <<100>>}, maxPrice : {Absent, <<100>>},
   duration : {Absent, <<5>>}, sortOrder : {"desc"},
   page : {1, 2}, limit : {DefaultLimit}]

\* GET /api/packages
ListPackages(q) ==
  /\ resp' = Reply("ListPackages", 200, FindPackages(q))
  /\ UNCHANGED <<packages, pkgCount, bookings, clock, users, nonce, requests, review>>

\* ---------------------------------------------------------- Booking model
NoText == ""
NoGatewayId == <<>>

\* travelDetails.numberOfTravelers of a request (adults >= 1, others >= 0)
TravelerCounts ==
  {[adults |-> 1, children |-> 0, infants |-> 0],
   [adults |-> 2, children |-> 1, infants |-> 0],
   [adults |-> 1, children |-> 0, infants |-> 1]}

OneAdult == [adults |-> 1, children |-> 0, infants |-> 0]

TaxPercent == 18

\* decimal digits of n, left-padded with 0 to the given width (padStart)
RECURSIVE Digits(_)
Digits(n) == IF n < 10 THEN <<n>> ELSE Digits(n \div 10) \o <<n % 10>>

RECURSIVE PadStart(_, _)
PadStart(d, width) == IF Len(d) >= width THEN d ELSE PadStart(<<0>> \o d, width)

\* calendar date of an instant of the clock
DateOf(t) == [year |-> 2026, month |-> 11, day |-> t]

\* values Math.floor(Math.random() * 10000) takes in a run
RandomSet == {7, 42}

\* a booking id whose random part is not padded to four digits
generateBookingId_Unpadded(t, random) ==
  LET date == DateOf(t)
      yy == Digits(date.year)
      year == SubSeq(yy, Len(yy) - 1, Len(yy))
      month == PadStart(Digits(date.month), 2)
      day == PadStart(Digits(date.day), 2)
  IN <<"P", "H">> \o year \o month \o day \o Digits(random)

\* bookingSchema.pre('save'): PH + YY + MM + DD + 4 random digits
generateBookingId(t, random) ==
  LET date == DateOf(t)
      yy == Digits(date.year)
      year == SubSeq(yy, Len(yy) - 1, Len(yy))
      month == PadStart(Digits(date.month), 2)
      day == PadStart(Digits(date.day), 2)
  IN <<"P", "H">> \o year \o month \o day \o PadStart(Digits(random), 4)

\* taxes taken on the per-person price instead of the booking's base price
computePricing_TaxOnUnitPrice(pkg, n) ==
  LET totalTravelers == n.adults + n.children + n.infants
      basePrice == pkg.basePrice * totalTravelers
      taxes == (pkg.basePrice * TaxPercent) \div 100
  IN [basePrice |-> basePrice, discount |-> 0, taxes |-> taxes,
      totalAmount |-> basePrice + taxes]

\* the pricing block computed by POST /api/bookings
computePricing(pkg, n) ==
  LET totalTravelers == n.adults + n.children + n.infants
      basePrice == pkg.basePrice * totalTravelers
      discount == 0
      taxes == (basePrice * TaxPercent) \div 100
      totalAmount == basePrice - discount + taxes
  IN [basePrice |-> basePrice, discount |-> discount, taxes |-> taxes,
      totalAmount |-> totalAmount]

\* schema defaults of a new Booking document
BookingDefaults ==
  [status |-> "pending",
   payment |-> [method |-> "razorpay", status |-> "pending",
                razorpayOrderId |-> NoGatewayId, razorpayPaymentId |-> NoGatewayId,
                paidAt |-> NoTime],
   approval |-> [approvedBy |-> NoUser, approvedAt |-> NoTime,
                 rejectedBy |-> NoUser, rejectedAt |-> NoTime,
                 rejectionReason |-> NoText],
   cancellation |-> [requestedAt |-> NoTime, cancelledBy |-> NoUser,
                     cancelledAt |-> NoTime, cancellationReason |-> NoText],
   reviews |-> <<>>]

BookingIds == 1..MaxBookings
BookedIds == 1..MaxBooked

\* the unique index on bookingId: an insert with a stored id is refused
duplicateKey(bookingId) == \E i \in DOMAIN bookings : bookings[i].bookingId = bookingId

\* POST /api/bookings
CreateBooking(actor, packageId, travelers, random) ==
  /\ IF packageId \notin DOMAIN packages
       THEN resp' = Reply("CreateBooking", 404, <<>>) /\ UNCHANGED <<packages, bookings>>
       ELSE IF ~isAvailable(packages[packageId])
         THEN resp' = Reply("CreateBooking", 400, <<>>) /\ UNCHANGED <<packages, bookings>>
         ELSE IF duplicateKey(generateBookingId(clock, random))
           THEN resp' = Reply("CreateBooking", 500, <<>>) /\ UNCHANGED <<packages, bookings>>
           ELSE LET package == packages[packageId]
                    totalTravelers == travelers.adults + travelers.children + travelers.infants
                    booking ==
                      Merge([customer |-> actor, package |-> packageId,
                             travelers |-> travelers,
                             pricing |-> computePricing(package, travelers),
                             bookingId |-> generateBookingId(clock, random)],
                            BookingDefaults)
                IN /\ bookings' = Append(bookings, booking)
                   /\ packages' = [packages EXCEPT ![packageId] =
                        updateAvailability(package, package.bookedSlots + totalTravelers)]
                   /\ resp' = Reply("CreateBooking", 201, <<>>)
  /\ UNCHANGED <<pkgCount, clock, users, nonce, requests, review>>

\* ---------------------------------- POST /api/bookings, one await at a time
\* an insert that looks at the package again before it stores the booking
InsertBooking_Rechecks(r, random) ==
  /\ r \in DOMAIN requests
  /\ requests[r].pc = "create"
  /\ LET req == requests[r]
     IN IF \/ req.packageId \notin DOMAIN packages
           \/ ~isAvailable(packages[req.packageId])
          THEN /\ resp' = Reply("CreateBooking", 400, <<>>)
               /\ requests' = [requests EXCEPT ![r].pc = "failed"]
               /\ UNCHANGED bookings
          ELSE LET booking ==
                     Merge([customer |-> req.customer, package |-> req.packageId,
                            travelers |-> req.travelers,
                            pricing |-> computePricing(req.package, req.travelers),
                            bookingId |-> generateBookingId(clock, random)],
                           BookingDefaults)
               IN /\ bookings' = Append(bookings, booking)
                  /\ requests' = [requests EXCEPT ![r].pc = "update"]
                  /\ UNCHANGED resp
  /\ UNCHANGED <<packages, pkgCount, clock, users, nonce, review>>

\* await Package.findById(packageId) and the isAvailable() test on the result
ReadPackage(r, actor, packageId, travelers) ==
  /\ r \notin DOMAIN requests
  /\ IF packageId \notin DOMAIN packages
       THEN resp' = Reply("CreateBooking", 404, <<>>) /\ UNCHANGED requests
       ELSE IF ~isAvailable(packages[packageId])
         THEN resp' = Reply("CreateBooking", 400, <<>>) /\ UNCHANGED requests
         ELSE /\ requests' = (r :> [pc |-> "create", customer |-> actor,
                                    packageId |-> packageId, travelers |-> travelers,
                                    package |-> packages[packageId]]) @@ requests
              /\ UNCHANGED resp
  /\ UNCHANGED <<packages, pkgCount, bookings, clock, users, nonce, review>>

\* await Booking.create(...), priced from the package document read before
InsertBooking(r, random) ==
  /\ r \in DOMAIN requests
  /\ requests[r].pc = "create"
  /\ LET req == requests[r]
     IN IF duplicateKey(generateBookingId(clock, random))
          THEN /\ resp' = Reply("CreateBooking", 500, <<>>)
               /\ requests' = [requests EXCEPT ![r].pc = "failed"]
               /\ UNCHANGED bookings
          ELSE LET booking ==
                     Merge([customer |-> req.customer, package |-> req.packageId,
                            travelers |-> req.travelers,
                            pricing |-> computePricing(req.package, req.travelers),
                            bookingId |-> generateBookingId(clock, random)],
                           BookingDefaults)
               IN /\ bookings' = Append(bookings, booking)
                  /\ requests' = [requests EXCEPT ![r].pc = "update"]
                  /\ UNCHANGED resp
  /\ UNCHANGED <<packages, pkgCount, clock, users, nonce, review>>

\* await package.updateAvailability(package.availability.bookedSlots +
\* totalTravelers): the document read before is saved with its new bookedSlots
SaveSlots(r) ==
  /\ r \in DOMAIN requests
  /\ requests[r].pc = "update"
  /\ LET req == requests[r]
         totalTravelers == req.travelers.adults + req.travelers.children
                             + req.travelers.infants
     IN IF req.packageId \notin DOMAIN packages
          THEN /\ resp' = Reply("CreateBooking", 500, <<>>)
               /\ requests' = [requests EXCEPT ![r].pc = "failed"]
               /\ UNCHANGED packages
          ELSE /\ packages' = [packages EXCEPT ![req.packageId] =
                    updateAvailability(@, req.package.bookedSlots + totalTravelers)]
               /\ requests' = [requests EXCEPT ![r].pc = "done"]
               /\ resp' = Reply("CreateBooking", 201, <<>>)
  /\ UNCHANGED <<pkgCount, bookings, clock, users, nonce, review>>

\* no POST /api/bookings handler is between two awaits
Quiescent == \A r \in DOMAIN requests : requests[r].pc \in {"done", "failed"}

\* ------------------------------------------- reading bookings back
\* the ?status= filters of GET /api/bookings; none is the empty string
StatusFilters == {NoText, "pending"}

RECURSIVE Reverse(_)
Reverse(s) == IF s = <<>> THEN <<>> ELSE Reverse(Tail(s)) \o <<Head(s)>>

\* the Mongo query of GET /api/bookings: a customer's own bookings, the
\* bookings whose agent field names the agent (no route ever sets it), or all
listQuery(actor, status, b) ==
  /\ Role(actor) = "customer" => b.customer = actor
  /\ Role(actor) = "agent" => FALSE
  /\ status # NoText => b.status = status

\* GET /api/bookings, first page, newest first
ListBookings(actor, status) ==
  /\ resp' = Reply("ListBookings", 200,
                   Reverse(SelectSeq(bookings, LAMBDA b : listQuery(actor, status, b))))
  /\ UNCHANGED <<packages, pkgCount, bookings, clock, users, nonce, requests, review>>

\* GET /api/bookings/:id; sameId is the outcome of comparing the populated
\* customer document, printed by toString(), with the id of its own user
GetBooking(actor, id, sameId) ==
  /\ IF id \notin DOMAIN bookings
       THEN resp' = Reply("GetBooking", 404, <<>>)
       ELSE IF Role(actor) = "customer" /\ ~(bookings[id].customer = actor /\ sameId)
         THEN resp' = Reply("GetBooking", 403, <<>>)
         ELSE resp' = Reply("GetBooking", 200, <<bookings[id]>>)
  /\ UNCHANGED <<packages, pkgCount, bookings, clock, users, nonce, requests, review>>

\* the payment gateway: orders.create either returns an order id or throws
GatewayOrderIds == {<<"o", "1">>, <<"o", "2">>}
GatewayPaymentIds == {<<"p", "1">>}
GatewayFailure == <<>>

\* the options of razorpay.orders.create: the amount in paise,
\* Math.round(totalAmount * 100) of a totalAmount in whole rupees
orderOptions(b) == [amount |-> b.pricing.totalAmount * 100, receipt |-> b.bookingId]

\* an order route without the check for a completed payment
CreatePaymentOrder_NoPaidCheck(actor, id, order) ==
  /\ IF id \notin DOMAIN bookings
       THEN resp' = Reply("CreatePaymentOrder", 404, <<>>) /\ UNCHANGED bookings
       ELSE IF order = GatewayFailure
         THEN resp' = Reply("CreatePaymentOrder", 500, <<>>) /\ UNCHANGED bookings
         ELSE /\ bookings' = [bookings EXCEPT ![id].payment.razorpayOrderId = order]
              /\ resp' = Reply("CreatePaymentOrder", 200,
                               <<order, orderOptions(bookings[id]).amount>>)
  /\ UNCHANGED <<packages, pkgCount, clock, users, nonce, requests, review>>

\* POST /api/bookings/:id/payment/create-order
CreatePaymentOrder(actor, id, order) ==
  /\ IF id \notin DOMAIN bookings
       THEN resp' = Reply("CreatePaymentOrder", 404, <<>>) /\ UNCHANGED bookings
       ELSE IF bookings[id].payment.status = "completed"
         THEN resp' = Reply("CreatePaymentOrder", 400, <<>>) /\ UNCHANGED bookings
         ELSE IF order = GatewayFailure
           THEN resp' = Reply("CreatePaymentOrder", 500, <<>>) /\ UNCHANGED bookings
           ELSE /\ bookings' = [bookings EXCEPT ![id].payment.razorpayOrderId = order]
                /\ resp' = Reply("CreatePaymentOrder", 200,
                                 <<order, orderOptions(bookings[id]).amount>>)
  /\ UNCHANGED <<packages, pkgCount, clock, users, nonce, requests, review>>

\* process.env.RAZORPAY_KEY_SECRET and a key an attacker guesses
KeySecret == "key_secret"
OtherKey == "other_key"

\* crypto.createHmac('sha256', key).update(text).digest('hex'), an ideal MAC
HmacSha256(key, text) == <<"hmac", key, text>>

SignedText(orderId, paymentId) == orderId \o <<"|">> \o paymentId

\* a comparison that accepts a signature made with any key
signatureMatches_AnyKey(orderId, paymentId, razorpaySignature) ==
  \E k \in {KeySecret, OtherKey} :
    HmacSha256(k, SignedText(orderId, paymentId)) = razorpaySignature

Signatures ==
  {HmacSha256(k, SignedText(o, p)) :
     k \in {KeySecret, OtherKey}, o \in GatewayOrderIds, p \in GatewayPaymentIds}

signatureMatches(orderId, paymentId, razorpaySignature) ==
  HmacSha256(KeySecret, SignedText(orderId, paymentId)) = razorpaySignature

\* a verification that confirms the booking but forgets payment.status
VerifyPayment_StatusOnly(actor, id, orderId, paymentId, razorpaySignature) ==
  /\ IF id \notin DOMAIN bookings
       THEN resp' = Reply("VerifyPayment", 404, <<>>) /\ UNCHANGED bookings
       ELSE IF ~signatureMatches(orderId, paymentId, razorpaySignature)
         THEN resp' = Reply("VerifyPayment", 400, <<>>) /\ UNCHANGED bookings
         ELSE /\ bookings' = [bookings EXCEPT ![id].payment.razorpayPaymentId = paymentId,
                                              ![id].payment.paidAt = clock,
                                              ![id].status = "confirmed"]
              /\ resp' = Reply("VerifyPayment", 200, <<>>)
  /\ UNCHANGED <<packages, pkgCount, clock, users, nonce, requests, review>>

\* POST /api/bookings/:id/payment/verify
VerifyPayment(actor, id, orderId, paymentId, razorpaySignature) ==
  /\ IF id \notin DOMAIN bookings
       THEN resp' = Reply("VerifyPayment", 404, <<>>) /\ UNCHANGED bookings
       ELSE IF ~signatureMatches(orderId, paymentId, razorpaySignature)
         THEN resp' = Reply("VerifyPayment", 400, <<>>) /\ UNCHANGED bookings
         ELSE /\ bookings' = [bookings EXCEPT ![id].payment.status = "completed",
                                              ![id].payment.razorpayPaymentId = paymentId,
                                              ![id].payment.paidAt = clock,
                                              ![id].status = "confirmed"]
              /\ resp' = Reply("VerifyPayment", 200, <<>>)
  /\ UNCHANGED <<packages, pkgCount, clock, users, nonce, requests, review>>

\* bookingSchema.methods.approve
approve(b, adminId, now) ==
  [b EXCEPT !.status = "approved",
            !.approval.approvedBy = adminId,
            !.approval.approvedAt = now]

\* bookingSchema.methods.reject
reject(b, adminId, reason, now) ==
  [b EXCEPT !.status = "rejected",
            !.approval.rejectedBy = adminId,
            !.approval.rejectedAt = now,
            !.approval.rejectionReason = reason]

\* a cancellation that also marks the payment refunded
cancel_RefundsPayment(b, userId, reason, now) ==
  [b EXCEPT !.status = "cancelled",
            !.payment.status = "refunded",
            !.cancellation.requestedAt = now,
            !.cancellation.cancelledBy = userId,
            !.cancellation.cancelledAt = now,
            !.cancellation.cancellationReason = reason]

\* bookingSchema.methods.cancel
cancel(b, userId, reason, now) ==
  [b EXCEPT !.status = "cancelled",
            !.cancellation.requestedAt = now,
            !.cancellation.cancelledBy = userId,
            !.cancellation.cancelledAt = now,
            !.cancellation.cancellationReason = reason]

\* bookingSchema.methods.addReview
addReview(b, userId, rating, comment) ==
  [b EXCEPT !.reviews = Append(@, [reviewer |-> userId, rating |-> rating,
                                   comment |-> comment])]

Reasons == {"changed plans"}
Ratings == {1, 5}
Comments == {"great"}

\* an approval without the already-approved guard
ApproveBooking_NoGuard(actor, id) ==
  /\ IF ~adminOnly(actor)
       THEN resp' = Reply("ApproveBooking", 403, <<>>) /\ UNCHANGED bookings
       ELSE IF id \notin DOMAIN bookings
         THEN resp' = Reply("ApproveBooking", 404, <<>>) /\ UNCHANGED bookings
         ELSE /\ bookings' = [bookings EXCEPT ![id] = approve(@, actor, clock)]
              /\ resp' = Reply("ApproveBooking", 200, <<>>)
  /\ UNCHANGED <<packages, pkgCount, clock, users, nonce, requests, review>>

\* POST /api/bookings/:id/approve
ApproveBooking(actor, id) ==
  /\ IF ~adminOnly(actor)
       THEN resp' = Reply("ApproveBooking", 403, <<>>) /\ UNCHANGED bookings
       ELSE IF id \notin DOMAIN bookings
         THEN resp' = Reply("ApproveBooking", 404, <<>>) /\ UNCHANGED bookings
         ELSE IF bookings[id].status = "approved"
           THEN resp' = Reply("ApproveBooking", 400, <<>>) /\ UNCHANGED bookings
           ELSE /\ bookings' = [bookings EXCEPT ![id] = approve(@, actor, clock)]
                /\ resp' = Reply("ApproveBooking", 200, <<>>)
  /\ UNCHANGED <<packages, pkgCount, clock, users, nonce, requests, review>>

\* a reject route that hands the booking's slots back to the package
RejectBooking_ReleasesSlots(actor, id, reason) ==
  /\ IF ~adminOnly(actor)
       THEN resp' = Reply("RejectBooking", 403, <<>>) /\ UNCHANGED <<packages, bookings>>
       ELSE IF id \notin DOMAIN bookings
         THEN resp' = Reply("RejectBooking", 404, <<>>) /\ UNCHANGED <<packages, bookings>>
         ELSE IF bookings[id].status = "rejected"
           THEN resp' = Reply("RejectBooking", 400, <<>>) /\ UNCHANGED <<packages, bookings>>
           ELSE LET b == bookings[id]
                    n == b.travelers.adults + b.travelers.children + b.travelers.infants
                IN /\ bookings' = [bookings EXCEPT ![id] = reject(@, actor, reason, clock)]
                   /\ packages' = [p \in DOMAIN packages |->
                        IF p = b.package
                          THEN updateAvailability(packages[p], packages[p].bookedSlots - n)
                          ELSE packages[p]]
                   /\ resp' = Reply("RejectBooking", 200, <<>>)
  /\ UNCHANGED <<pkgCount, clock, users, nonce, requests, review>>

\* POST /api/bookings/:id/reject
RejectBooking(actor, id, reason) ==
  /\ IF ~adminOnly(actor)
       THEN resp' = Reply("RejectBooking", 403, <<>>) /\ UNCHANGED bookings
       ELSE IF id \notin DOMAIN bookings
         THEN resp' = Reply("RejectBooking", 404, <<>>) /\ UNCHANGED bookings
         ELSE IF bookings[id].status = "rejected"
           THEN resp' = Reply("RejectBooking", 400, <<>>) /\ UNCHANGED bookings
           ELSE /\ bookings' = [bookings EXCEPT ![id] = reject(@, actor, reason, clock)]
                /\ resp' = Reply("RejectBooking", 200, <<>>)
  /\ UNCHANGED <<packages, pkgCount, clock, users, nonce, requests, review>>

\* a cancel route that lets any customer cancel any booking
CancelBooking_AnyCustomer(actor, id, reason) ==
  /\ IF id \notin DOMAIN bookings
       THEN resp' = Reply("CancelBooking", 404, <<>>) /\ UNCHANGED bookings
       ELSE IF bookings[id].status = "cancelled"
         THEN resp' = Reply("CancelBooking", 400, <<>>) /\ UNCHANGED bookings
         ELSE /\ bookings' = [bookings EXCEPT ![id] = cancel(@, actor, reason, clock)]
              /\ resp' = Reply("CancelBooking", 200, <<>>)
  /\ UNCHANGED <<packages, pkgCount, clock, users, nonce, requests, review>>

\* POST /api/bookings/:id/cancel
CancelBooking(actor, id, reason) ==
  /\ IF id \notin DOMAIN bookings
       THEN resp' = Reply("CancelBooking", 404, <<>>) /\ UNCHANGED bookings
       ELSE IF bookings[id].status = "cancelled"
         THEN resp' = Reply("CancelBooking", 400, <<>>) /\ UNCHANGED bookings
         ELSE IF Role(actor) = "customer" /\ bookings[id].customer # actor
           THEN resp' = Reply("CancelBooking", 403, <<>>) /\ UNCHANGED bookings
           ELSE /\ bookings' = [bookings EXCEPT ![id] = cancel(@, actor, reason, clock)]
                /\ resp' = Reply("CancelBooking", 200, <<>>)
  /\ UNCHANGED <<packages, pkgCount, clock, users, nonce, requests, review>>

\* a review route without the completed-status check
AddReview_AnyStatus(actor, id, rating, comment) ==
  /\ IF id \notin DOMAIN bookings
       THEN resp' = Reply("AddReview", 404, <<>>) /\ UNCHANGED bookings
       ELSE IF bookings[id].customer # actor
         THEN resp' = Reply("AddReview", 403, <<>>) /\ UNCHANGED bookings
         ELSE /\ bookings' = [bookings EXCEPT ![id] = addReview(@, actor, rating, comment)]
              /\ resp' = Reply("AddReview", 200, <<>>)
  /\ UNCHANGED <<packages, pkgCount, clock, users, nonce, requests, review>>

\* POST /api/bookings/:id/review
AddReview(actor, id, rating, comment) ==
  /\ IF id \notin DOMAIN bookings
       THEN resp' = Reply("AddReview", 404, <<>>) /\ UNCHANGED bookings
       ELSE IF bookings[id].customer # actor
         THEN resp' = Reply("AddReview", 403, <<>>) /\ UNCHANGED bookings
         ELSE IF bookings[id].status # "completed"
           THEN resp' = Reply("AddReview", 400, <<>>) /\ UNCHANGED bookings
           ELSE /\ bookings' = [bookings EXCEPT ![id] = addReview(@, actor, rating, comment)]
                /\ resp' = Reply("AddReview", 200, <<>>)
  /\ UNCHANGED <<packages, pkgCount, clock, users, nonce, requests, review>>

\* statuses PUT /api/admin/bookings/:id/status accepts, and one it refuses
AdminStatuses == {"pending", "confirmed", "cancelled", "completed"}
RequestedStatuses == AdminStatuses \cup {"approved"}

\* PUT /api/admin/bookings/:id/status
AdminUpdateBookingStatus(actor, id, status) ==
  /\ IF ~adminOnly(actor)
       THEN resp' = Reply("AdminUpdateBookingStatus", 403, <<>>) /\ UNCHANGED bookings
       ELSE IF status \notin AdminStatuses
         THEN resp' = Reply("AdminUpdateBookingStatus", 400, <<>>) /\ UNCHANGED bookings
         ELSE IF id \notin DOMAIN bookings
           THEN resp' = Reply("AdminUpdateBookingStatus", 404, <<>>) /\ UNCHANGED bookings
           ELSE /\ bookings' = [bookings EXCEPT ![id].status = status]
                /\ resp' = Reply("AdminUpdateBookingStatus", 200, <<>>)
  /\ UNCHANGED <<packages, pkgCount, clock, users, nonce, requests, review>>

\* ------------------------------------------------------------- User model
Emails == {"a@x.com", "b@x.com"}
Passwords == {"secret1", "secret2"}
Roles == {"customer", "admin"}

\* an unset passwordResetToken
NoToken == <<>>

\* response messages of the auth routes
EmailTaken == <<"User with this email already exists">>
InvalidCredentials == <<"Invalid credentials">>
Deactivated == <<"Account is deactivated. Please contact support.">>
InvalidResetToken == <<"Invalid or expired reset token">>

\* the password hash the User model stores (bcrypt), an ideal one-way hash
Hash(password) == <<"bcrypt", password>>

\* userSchema.methods.comparePassword
comparePassword(user, candidate) == Hash(candidate) = user.password

\* schema defaults of a new User document
UserDefaults ==
  [isActive |-> TRUE, lastLogin |-> NoTime,
   passwordResetToken |-> NoToken, passwordResetExpires |-> NoTime]

\* User.findOne({ email }): the ids of the documents with this email
findByEmail(email) == {i \in DOMAIN users : users[i].email = email}

\* generateToken(user._id): a signed bearer token that carries the user id
generateToken(id) == [sub |-> id]

\* the bearer tokens a client can hold: one per registered user
IssuedTokens == {generateToken(i) : i \in DOMAIN users}

\* the auth middleware: the token's user is read from the store on every
\* request and must still be active
authenticate(token) == token.sub \in DOMAIN users /\ users[token.sub].isActive

\* a register route without the lookup of the email
Register_NoLookup(email, password, role) ==
  /\ LET id == Len(users) + 1
         user == Merge([email |-> email, password |-> Hash(password), role |-> role],
                       UserDefaults)
     IN /\ users' = Append(users, user)
        /\ resp' = Reply("Register", 201, <<generateToken(id)>>)
  /\ UNCHANGED <<packages, pkgCount, bookings, clock, nonce, requests, review>>

\* POST /api/auth/register
Register(email, password, role) ==
  /\ IF findByEmail(email) # {}
       THEN resp' = Reply("Register", 400, EmailTaken) /\ UNCHANGED users
       ELSE LET id == Len(users) + 1
                user == Merge([email |-> email, password |-> Hash(password),
                               role |-> role], UserDefaults)
            IN /\ users' = Append(users, user)
               /\ resp' = Reply("Register", 201, <<generateToken(id)>>)
  /\ UNCHANGED <<packages, pkgCount, bookings, clock, nonce, requests, review>>

\* a login route without the check of the active flag
Login_SkipsActiveCheck(email, password) ==
  /\ IF findByEmail(email) = {}
       THEN resp' = Reply("Login", 401, InvalidCredentials) /\ UNCHANGED users
       ELSE LET id == CHOOSE i \in findByEmail(email) : TRUE
            IN IF ~comparePassword(users[id], password)
                 THEN resp' = Reply("Login", 401, InvalidCredentials) /\ UNCHANGED users
                 ELSE /\ users' = [users EXCEPT ![id].lastLogin = clock]
                      /\ resp' = Reply("Login", 200, <<generateToken(id)>>)
  /\ UNCHANGED <<packages, pkgCount, bookings, clock, nonce, requests, review>>

\* POST /api/auth/login
Login(email, password) ==
  /\ IF findByEmail(email) = {}
       THEN resp' = Reply("Login", 401, InvalidCredentials) /\ UNCHANGED users
       ELSE LET id == CHOOSE i \in findByEmail(email) : TRUE
            IN IF ~users[id].isActive
                 THEN resp' = Reply("Login", 401, Deactivated) /\ UNCHANGED users
                 ELSE IF ~comparePassword(users[id], password)
                   THEN resp' = Reply("Login", 401, InvalidCredentials) /\ UNCHANGED users
                   ELSE /\ users' = [users EXCEPT ![id].lastLogin = clock]
                        /\ resp' = Reply("Login", 200, <<generateToken(id)>>)
  /\ UNCHANGED <<packages, pkgCount, bookings, clock, nonce, requests, review>>

\* updateData of PUT /api/admin/users/:id: the fields the body defines
UserUpdates == {[isActive |-> TRUE], [isActive |-> FALSE], [role |-> "customer"]}

\* PUT /api/admin/users/:id
AdminUpdateUser(token, id, updateData) ==
  /\ IF ~authenticate(token)
       THEN resp' = Reply("AdminUpdateUser", 401, <<>>) /\ UNCHANGED users
       ELSE IF users[token.sub].role # "admin"
         THEN resp' = Reply("AdminUpdateUser", 403, <<>>) /\ UNCHANGED users
         ELSE IF id \notin DOMAIN users
           THEN resp' = Reply("AdminUpdateUser", 404, <<>>) /\ UNCHANGED users
           ELSE /\ users' = [users EXCEPT ![id] = Merge(updateData, @)]
                /\ resp' = Reply("AdminUpdateUser", 200, <<>>)
  /\ UNCHANGED <<packages, pkgCount, bookings, clock, nonce, requests, review>>

\* DELETE /api/admin/users/:id
AdminDeactivateUser(token, id) ==
  /\ IF ~authenticate(token)
       THEN resp' = Reply("AdminDeactivateUser", 401, <<>>) /\ UNCHANGED users
       ELSE IF users[token.sub].role # "admin"
         THEN resp' = Reply("AdminDeactivateUser", 403, <<>>) /\ UNCHANGED users
         ELSE IF id \notin DOMAIN users
           THEN resp' = Reply("AdminDeactivateUser", 404, <<>>) /\ UNCHANGED users
           ELSE /\ users' = [users EXCEPT ![id].isActive = FALSE]
                /\ resp' = Reply("AdminDeactivateUser", 200, <<>>)
  /\ UNCHANGED <<packages, pkgCount, bookings, clock, nonce, requests, review>>

\* DELETE /api/user/account
DeleteAccount(token) ==
  /\ IF ~authenticate(token)
       THEN resp' = Reply("DeleteAccount", 401, <<>>) /\ UNCHANGED users
       ELSE /\ users' = [users EXCEPT ![token.sub].isActive = FALSE]
            /\ resp' = Reply("DeleteAccount", 200, <<>>)
  /\ UNCHANGED <<packages, pkgCount, bookings, clock, nonce, requests, review>>

\* a reactivate route that is not behind the auth middleware
Reactivate_Unprotected(token) ==
  /\ IF token.sub \notin DOMAIN users
       THEN resp' = Reply("Reactivate", 401, <<>>) /\ UNCHANGED users
       ELSE /\ users' = [users EXCEPT ![token.sub].isActive = TRUE]
            /\ resp' = Reply("Reactivate", 200, <<>>)
  /\ UNCHANGED <<packages, pkgCount, bookings, clock, nonce, requests, review>>

\* POST /api/user/reactivate
Reactivate(token) ==
  /\ IF ~authenticate(token)
       THEN resp' = Reply("Reactivate", 401, <<>>) /\ UNCHANGED users
       ELSE /\ users' = [users EXCEPT ![token.sub].isActive = TRUE]
            /\ resp' = Reply("Reactivate", 200, <<>>)
  /\ UNCHANGED <<packages, pkgCount, bookings, clock, nonce, requests, review>>

\* minutes a password reset token stays usable (SpecReset's clock counts minutes)
ResetWindow == 10

\* crypto.randomBytes(32).toString('hex'): the n-th value drawn, never repeated
randomBytes(n) == <<"reset", n>>

\* POST /api/auth/forgot-password
RequestPasswordReset(email) ==
  /\ IF findByEmail(email) = {}
       THEN /\ resp' = Reply("RequestPasswordReset", 404, <<>>)
            /\ UNCHANGED <<users, nonce>>
       ELSE LET id == CHOOSE i \in findByEmail(email) : TRUE
                resetToken == randomBytes(nonce + 1)
            IN /\ nonce' = nonce + 1
               /\ users' = [users EXCEPT ![id].passwordResetToken = resetToken,
                                         ![id].passwordResetExpires = clock + ResetWindow]
               /\ resp' = Reply("RequestPasswordReset", 200, <<>>)
  /\ UNCHANGED <<packages, pkgCount, bookings, clock, requests, review>>

\* User.findOne({ passwordResetToken: token, passwordResetExpires: { $gt: now } })
findByResetToken(token, now) ==
  {i \in DOMAIN users :
     users[i].passwordResetToken = token /\ users[i].passwordResetExpires > now}

\* a reset route that leaves the token on the account
ResetPassword_KeepsToken(token, newPassword) ==
  /\ IF findByResetToken(token, clock) = {}
       THEN resp' = Reply("ResetPassword", 400, InvalidResetToken) /\ UNCHANGED users
       ELSE LET id == CHOOSE i \in findByResetToken(token, clock) : TRUE
            IN /\ users' = [users EXCEPT ![id].password = Hash(newPassword)]
               /\ resp' = Reply("ResetPassword", 200, <<>>)
  /\ UNCHANGED <<packages, pkgCount, bookings, clock, nonce, requests, review>>

\* POST /api/auth/reset-password
ResetPassword(token, newPassword) ==
  /\ IF findByResetToken(token, clock) = {}
       THEN resp' = Reply("ResetPassword", 400, InvalidResetToken) /\ UNCHANGED users
       ELSE LET id == CHOOSE i \in findByResetToken(token, clock) : TRUE
            IN /\ users' = [users EXCEPT ![id].password = Hash(newPassword),
                                         ![id].passwordResetToken = NoToken,
                                         ![id].passwordResetExpires = NoTime]
               /\ resp' = Reply("ResetPassword", 200, <<>>)
  /\ UNCHANGED <<packages, pkgCount, bookings, clock, nonce, requests, review>>

\* the reset tokens a client may present
ResetTokens == {randomBytes(n) : n \in 1..MaxNonce}

\* minutes that pass between two requests
Waits == {1, ResetWindow - 1}

Elapse(d) ==
  /\ clock + d <= MaxTime
  /\ clock' = clock + d
  /\ UNCHANGED <<packages, pkgCount, bookings, resp, users, nonce, requests, review>>

\* ------------------------------------------------------------ Review model
\* the users who vote on a review and report it
Voters == Customers \cup {"a1"}
ReportReasons == {"spam", "fake"}

\* Array.prototype.find on a list of sub-documents with a user field:
\* the index of the first entry of the user, 0 when there is none
findByUser(list, userId) ==
  IF \E i \in DOMAIN list : list[i].user = userId
    THEN CHOOSE i \in DOMAIN list :
           list[i].user = userId /\ \A j \in 1..(i - 1) : list[j].user # userId
    ELSE 0

\* a vote that is always pushed as a new entry
addHelpfulVote_AlwaysPushes(userId, isHelpful) ==
  /\ review' = [review EXCEPT !.helpful = Append(@, [user |-> userId, helpful |-> isHelpful])]
  /\ UNCHANGED <<packages, pkgCount, bookings, clock, resp, users, nonce, requests>>

\* reviewSchema.methods.addHelpfulVote
addHelpfulVote(userId, isHelpful) ==
  /\ LET existingVote == findByUser(review.helpful, userId)
     IN IF existingVote # 0
          THEN review' = [review EXCEPT !.helpful[existingVote].helpful = isHelpful]
          ELSE review' = [review EXCEPT
                            !.helpful = Append(@, [user |-> userId, helpful |-> isHelpful])]
  /\ UNCHANGED <<packages, pkgCount, bookings, clock, resp, users, nonce, requests>>

\* a report that replaces the reason of the user's earlier report
reportReview_Overwrites(userId, reason) ==
  /\ LET existingReport == findByUser(review.reported, userId)
     IN IF existingReport = 0
          THEN review' = [review EXCEPT !.reported =
                            Append(@, [user |-> userId, reason |-> reason, reportedAt |-> clock])]
          ELSE review' = [review EXCEPT !.reported[existingReport].reason = reason]
  /\ UNCHANGED <<packages, pkgCount, bookings, clock, resp, users, nonce, requests>>

\* reviewSchema.methods.reportReview
reportReview(userId, reason) ==
  /\ LET existingReport == findByUser(review.reported, userId)
     IN IF existingReport = 0
          THEN review' = [review EXCEPT !.reported =
                            Append(@, [user |-> userId, reason |-> reason, reportedAt |-> clock])]
          ELSE UNCHANGED review
  /\ UNCHANGED <<packages, pkgCount, bookings, clock, resp, users, nonce, requests>>

\* time passes between requests
Tick ==
  /\ clock < MaxClock
  /\ clock' = clock + 1
  /\ UNCHANGED <<packages, pkgCount, bookings, resp, users, nonce, requests, review>>

Init ==
  /\ packages = <<>>
  /\ pkgCount = 0
  /\ bookings = <<>>
  /\ clock = 1
  /\ resp = Reply("none", 0, <<>>)
  /\ users = <<>>
  /\ nonce = 0
  /\ requests = <<>>
  /\ review = [helpful |-> <<>>, reported |-> <<>>]

PkgIds == 1..MaxPackages
UserIds == 1..MaxUsers
RequestIds == 1..MaxRequests

\* the bounds of a run: ids handed out, bookings stored, reviews per booking
PackagesWithin == pkgCount' <= MaxPackages
BookingsWithin(max) == Len(bookings') <= max
ReviewsWithin == \A i \in DOMAIN bookings' : Len(bookings'[i].reviews) <= MaxReviews
UsersWithin == Len(users') <= MaxUsers
NonceWithin == nonce' <= MaxNonce

\* the package catalog: every package route, request bodies with extra fields
NextPkg ==
  \/ \E a \in Users, pl \in CreatePayloads : CreatePackage(a, pl) /\ PackagesWithin
  \/ \E a \in Users, id \in PkgIds, pl \in UpdatePayloads : UpdatePackage(a, id, pl)
  \/ \E a \in Users, id \in PkgIds : DeletePackage(a, id)
  \/ \E a \in Users, id \in PkgIds : ApprovePackage(a, id)
  \/ \E a \in Users, id \in PkgIds : RejectPackage(a, id)
  \/ \E q \in Queries : ListPackages(q)
  \/ Tick

SpecPkg == Init /\ [][NextPkg]_vars

\* creating and paying bookings over a catalog of plainly created packages
NextBook ==
  \/ \E a \in Clients, pl \in BookablePayloads : CreatePackage(a, pl) /\ PackagesWithin
  \/ \E a \in Admins, id \in PkgIds : ApprovePackage(a, id)
  \/ \E p \in PkgIds, n \in TravelerCounts, r \in RandomSet :
       CreateBooking(Owner, p, n, r) /\ BookingsWithin(MaxBooked)
  \/ \E a \in Customers, id \in BookedIds, o \in GatewayOrderIds \cup {GatewayFailure} :
       CreatePaymentOrder(a, id, o)
  \/ \E a \in Customers, id \in BookedIds, o \in GatewayOrderIds, p \in GatewayPaymentIds,
        sig \in Signatures : VerifyPayment(a, id, o, p, sig)
  \/ Tick

SpecBook == Init /\ [][NextBook]_vars

\* the approval workflow of packages and bookings
NextApproval ==
  \/ \E a \in Staff, pl \in PlainPayloads : CreatePackage(a, pl) /\ PackagesWithin
  \/ \E a \in Reviewers, id \in PkgIds : ApprovePackage(a, id)
  \/ \E a \in Reviewers, id \in PkgIds : RejectPackage(a, id)
  \/ \E p \in PkgIds, n \in {OneAdult}, r \in RandomSet :
       CreateBooking(Owner, p, n, r) /\ BookingsWithin(MaxBookings)
  \/ \E a \in Reviewers, id \in BookingIds : ApproveBooking(a, id)
  \/ \E a \in Reviewers, id \in BookingIds, r \in Reasons : RejectBooking(a, id, r)
  \/ \E a \in Reviewers, id \in BookingIds, st \in RequestedStatuses :
       AdminUpdateBookingStatus(a, id, st)
  \/ Tick

SpecApproval == Init /\ [][NextApproval]_vars

\* every booking operation, all requests arriving within one instant of the clock
Next ==
  \/ \E a \in Admins, pl \in PlainPayloads : CreatePackage(a, pl) /\ PackagesWithin
  \/ \E p \in PkgIds, n \in {OneAdult}, r \in RandomSet :
       CreateBooking(Owner, p, n, r) /\ BookingsWithin(MaxBookings)
  \/ \E a \in Customers, id \in BookingIds, o \in GatewayOrderIds \cup {GatewayFailure} :
       CreatePaymentOrder(a, id, o)
  \/ \E a \in Customers, id \in BookingIds, o \in GatewayOrderIds, p \in GatewayPaymentIds,
        sig \in Signatures : VerifyPayment(a, id, o, p, sig)
  \/ \E a \in Reviewers, id \in BookingIds : ApproveBooking(a, id)
  \/ \E a \in Reviewers, id \in BookingIds, r \in Reasons : RejectBooking(a, id, r)
  \/ \E a \in Clients, id \in BookingIds, r \in Reasons : CancelBooking(a, id, r)
  \/ \E a \in Clients, id \in BookingIds, r \in Ratings, c \in Comments :
       AddReview(a, id, r, c) /\ ReviewsWithin
  \/ \E a \in Reviewers, id \in BookingIds, st \in RequestedStatuses :
       AdminUpdateBookingStatus(a, id, st)

Spec == Init /\ [][Next]_vars

\* accounts: registration, login, deactivation and reactivation
NextAuth ==
  \/ \E e \in Emails, p \in {"secret1"}, r \in Roles : Register(e, p, r) /\ UsersWithin
  \/ \E e \in Emails, p \in Passwords : Login(e, p)
  \/ \E t \in IssuedTokens, id \in UserIds, u \in UserUpdates : AdminUpdateUser(t, id, u)
  \/ \E t \in IssuedTokens, id \in UserIds : AdminDeactivateUser(t, id)
  \/ \E t \in IssuedTokens : DeleteAccount(t)
  \/ \E t \in IssuedTokens : Reactivate(t)
  \/ Tick

SpecAuth == Init /\ [][NextAuth]_vars

\* password reset of one account, the clock counting minutes
NextReset ==
  \/ \E p \in {"secret1"} : Register("a@x.com", p, "customer") /\ UsersWithin
  \/ \E e \in Emails : RequestPasswordReset(e) /\ NonceWithin
  \/ \E t \in ResetTokens, p \in Passwords : ResetPassword(t, p)
  \/ \E d \in Waits : Elapse(d)

SpecReset == Init /\ [][NextReset]_vars

\* concurrent POST /api/bookings requests, each taking one await per step
NextRace ==
  \/ \E a \in Admins, pl \in PlainPayloads : CreatePackage(a, pl) /\ PackagesWithin
  \/ \E r \in RequestIds, a \in Customers, p \in PkgIds, n \in TravelerCounts :
       ReadPackage(r, a, p, n)
  \/ \E r \in RequestIds, x \in RandomSet : InsertBooking(r, x)
  \/ \E r \in RequestIds : SaveSlots(r)

SpecRace == Init /\ [][NextRace]_vars

\* two customers and an admin on each other's bookings
NextAccess ==
  \/ \E pl \in PlainPayloads : CreatePackage("ad", pl) /\ PackagesWithin
  \/ \E a \in Customers, p \in PkgIds, r \in RandomSet :
       CreateBooking(a, p, OneAdult, r) /\ BookingsWithin(MaxBooked)
  \/ \E a \in Customers \cup Admins, st \in StatusFilters : ListBookings(a, st)
  \/ \E a \in Customers \cup Admins, id \in BookedIds, same \in BOOLEAN : GetBooking(a, id, same)
  \/ \E a \in Customers, id \in BookedIds : CreatePaymentOrder(a, id, <<"o", "1">>)
  \/ \E a \in Customers, id \in BookedIds :
       VerifyPayment(a, id, <<"o", "1">>, <<"p", "1">>,
                     HmacSha256(KeySecret, SignedText(<<"o", "1">>, <<"p", "1">>)))
  \/ \E a \in Customers, id \in BookedIds, r \in Reasons : CancelBooking(a, id, r)
  \/ \E a \in Customers, id \in BookedIds, c \in Comments :
       AddReview(a, id, 5, c) /\ ReviewsWithin
  \/ \E id \in BookedIds : AdminUpdateBookingStatus("ad", id, "completed")

SpecAccess == Init /\ [][NextAccess]_vars

\* bookings of packages that an admin may delete
NextRetire ==
  \/ \E a \in Staff, pl \in PlainPayloads : CreatePackage(a, pl) /\ PackagesWithin
  \/ \E a \in Admins, id \in PkgIds : ApprovePackage(a, id)
  \/ \E a \in Customers, p \in PkgIds, n \in TravelerCounts, r \in RandomSet :
       CreateBooking(a, p, n, r) /\ BookingsWithin(MaxBooked)
  \/ \E a \in Users, id \in PkgIds : DeletePackage(a, id)

SpecRetire == Init /\ [][NextRetire]_vars

\* votes and reports on one review
NextReview ==
  \/ \E u \in Voters, h \in BOOLEAN : addHelpfulVote(u, h)
  \/ \E u \in Customers, r \in ReportReasons : reportReview(u, r)
  \/ Tick

SpecReview == Init /\ [][NextReview]_vars

\* ------------------------------------------------------------------ claims
TotalOf(n) == n.adults + n.children + n.infants
LastBooking == bookings[Len(bookings)]

\* C1: for every package, 0 <= bookedSlots <= totalSlots after any sequence
\* of CreateBooking operations with valid traveler counts.
C1_BookedSlotsWithinTotal ==
  \A id \in DOMAIN packages :
    0 <= packages[id].bookedSlots /\ packages[id].bookedSlots <= packages[id].totalSlots

\* C2: CreateBooking answers 404 for an absent package and 400 for a package
\* that is not active, not approved or has bookedSlots >= totalSlots; either
\* way no booking is stored and the packages are unchanged.  Once a package
\* with totalSlots = 1 carries a booking, the next CreateBooking on it gets 400.
C2_UnavailablePackageIsRefused ==
  [][\A p \in PkgIds, n \in TravelerCounts, r \in RandomSet :
       CreateBooking(Owner, p, n, r) =>
         /\ p \notin DOMAIN packages =>
              resp'.code = 404 /\ bookings' = bookings /\ packages' = packages
         /\ (/\ p \in DOMAIN packages
             /\ \/ ~packages[p].isActive
                \/ ~packages[p].isApproved
                \/ packages[p].bookedSlots >= packages[p].totalSlots) =>
              resp'.code = 400 /\ bookings' = bookings /\ packages' = packages
         /\ (/\ p \in DOMAIN packages
             /\ packages[p].totalSlots = 1
             /\ \E i \in DOMAIN bookings : bookings[i].package = p) =>
              resp'.code = 400 /\ bookings' = bookings /\ packages' = packages]_vars

\* a package with totalSlots = 1 is booked out and a further booking was refused
C2_Witness ==
  /\ resp.op = "CreateBooking"
  /\ resp.code = 400
  /\ \E i \in DOMAIN bookings :
       /\ bookings[i].package \in DOMAIN packages
       /\ packages[bookings[i].package].totalSlots = 1
       /\ packages[bookings[i].package].isActive
       /\ packages[bookings[i].package].isApproved

\* C3: a created booking has basePrice = package base price * travelers,
\* discount = 0, taxes = 18% of basePrice and totalAmount = basePrice -
\* discount + taxes; 2 adults + 1 child at 1000 gives 3000 / 540 / 3540.
C3_PricingOfNewBooking ==
  [][\A p \in PkgIds, n \in TravelerCounts, r \in RandomSet :
       (CreateBooking(Owner, p, n, r) /\ resp'.code = 201) =>
         LET pricing == bookings'[Len(bookings')].pricing
         IN /\ Len(bookings') = Len(bookings) + 1
            /\ pricing.basePrice = packages[p].basePrice * TotalOf(n)
            /\ pricing.discount = 0
            /\ 100 * pricing.taxes = 18 * pricing.basePrice
            /\ pricing.totalAmount = pricing.basePrice - pricing.discount + pricing.taxes
            /\ (packages[p].basePrice = 1000 /\ n.adults = 2 /\ n.children = 1
                  /\ n.infants = 0) =>
                 /\ pricing.basePrice = 3000
                 /\ pricing.taxes = 540
                 /\ pricing.totalAmount = 3540]_vars

\* the booking of 2 adults and 1 child at base price 1000 was just created
C3_Witness ==
  /\ resp.op = "CreateBooking"
  /\ resp.code = 201
  /\ bookings # <<>>
  /\ LastBooking.travelers = [adults |-> 2, children |-> 1, infants |-> 0]
  /\ LastBooking.pricing.totalAmount = 3540

\* C4: VerifyPayment on an existing booking succeeds exactly when the
\* signature equals HMAC_SHA256(secret, orderId | paymentId); success sets
\* payment.status = completed, paidAt and status = confirmed; a mismatch
\* answers 400 and leaves the booking unchanged.
C4_VerifyPaymentBySignature ==
  [][\A a \in Customers, i \in DOMAIN bookings, o \in GatewayOrderIds,
        p \in GatewayPaymentIds, sig \in Signatures :
       VerifyPayment(a, i, o, p, sig) =>
         IF sig = HmacSha256(KeySecret, SignedText(o, p))
           THEN /\ resp'.code = 200
                /\ bookings'[i].payment.status = "completed"
                /\ bookings'[i].payment.paidAt = clock
                /\ bookings'[i].payment.paidAt # NoTime
                /\ bookings'[i].status = "confirmed"
           ELSE /\ resp'.code = 400
                /\ bookings' = bookings]_vars

\* a payment was verified after the clock moved on
C4_Witness ==
  /\ resp.op = "VerifyPayment"
  /\ resp.code = 200
  /\ \E i \in DOMAIN bookings :
       /\ bookings[i].status = "confirmed"
       /\ bookings[i].payment.status = "completed"
       /\ bookings[i].payment.paidAt = 2
       /\ bookings[i].bookingId = generateBookingId(1, 7)

C6_ReviewOnlyByCustomerWhenCompleted ==
  [][\A a \in Clients, i \in DOMAIN bookings, r \in Ratings, c \in Comments :
       AddReview(a, i, r, c) =>
         /\ (a = bookings[i].customer /\ bookings[i].status = "completed") =>
              /\ resp'.code = 200
              /\ bookings'[i].reviews =
                   Append(bookings[i].reviews,
                          [reviewer |-> a, rating |-> r, comment |-> c])
         /\ a # bookings[i].customer =>
              resp'.code = 403 /\ bookings' = bookings
         /\ (a = bookings[i].customer /\ bookings[i].status # "completed") =>
              resp'.code = 400 /\ bookings' = bookings]_vars

\* the customer reviewed a completed booking
C6_Witness ==
  /\ resp.op = "AddReview"
  /\ resp.code = 200
  /\ \E i \in DOMAIN bookings :
       /\ bookings[i].status = "completed"
       /\ Len(bookings[i].reviews) = 1
       /\ bookings[i].reviews[1].reviewer = bookings[i].customer

\* C7: an admin's ApproveBooking on an approved booking and ApprovePackage
\* on an approved package answer 400 and change nothing.
C7_ReapprovalIsRefused ==
  [][/\ \A a \in Admins, i \in DOMAIN bookings :
          (ApproveBooking(a, i) /\ bookings[i].status = "approved") =>
            resp'.code = 400 /\ bookings' = bookings
     /\ \A a \in Admins, p \in DOMAIN packages :
          (ApprovePackage(a, p) /\ packages[p].isApproved) =>
            resp'.code = 400 /\ packages' = packages]_vars

\* an approved booking of an approved package was approved again, later
C7_Witness ==
  /\ resp.op = "ApproveBooking"
  /\ resp.code = 400
  /\ clock = 2
  /\ \E i \in DOMAIN bookings :
       /\ bookings[i].status = "approved"
       /\ bookings[i].approval.approvedAt = 1
       /\ bookings[i].package \in DOMAIN packages
       /\ packages[bookings[i].package].isApproved
       /\ packages[bookings[i].package].approvedAt = 1

\* C8: every package a ListPackages response carries has isApproved = true
\* and availability.isActive = true, whatever the filters.
C8_ListedAreApprovedAndActive ==
  resp.op = "ListPackages" =>
    \A k \in 1..Len(resp.data) :
      /\ resp.data[k] \in DOMAIN packages
      /\ packages[resp.data[k]].isApproved
      /\ packages[resp.data[k]].isActive

\* a listing returned a package
C8_Witness ==
  /\ resp.op = "ListPackages"
  /\ Len(resp.data) = 1

\* C9: UpdatePackage by the agent who created the package leaves isApproved,
\* approvedBy and approvedAt unchanged, whatever the payload.
C9_AgentUpdateKeepsApproval ==
  [][\A a \in Agents, id \in DOMAIN packages, pl \in UpdatePayloads :
       (UpdatePackage(a, id, pl) /\ packages[id].createdBy = a) =>
         /\ packages'[id].isApproved = packages[id].isApproved
         /\ packages'[id].approvedBy = packages[id].approvedBy
         /\ packages'[id].approvedAt = packages[id].approvedAt]_vars

\* C10: CreatePackage stores createdBy = creator; an admin's package is
\* approved by its creator with approvedAt set, an agent's package is left
\* pending (isApproved = false, no approver), whatever the payload.
C10_CreatedPackageApproval ==
  [][\A a \in Users, pl \in CreatePayloads :
       (CreatePackage(a, pl) /\ resp'.code = 201) =>
         LET new == packages'[pkgCount']
         IN /\ new.createdBy = a
            /\ Role(a) = "admin" =>
                 new.isApproved /\ new.approvedBy = a /\ new.approvedAt # NoTime
            /\ Role(a) = "agent" =>
                 ~new.isApproved /\ new.approvedBy = NoUser]_vars

\* C11: UpdatePackage by an agent on a package another user created answers
\* 403 and leaves the packages unchanged; by an admin, or by the agent who
\* created the package, it answers 200 and applies the payload.
C11_UpdateByOtherAgentIsForbidden ==
  [][\A a \in Agents \cup Admins, id \in DOMAIN packages, pl \in UpdatePayloads :
       UpdatePackage(a, id, pl) =>
         IF Role(a) = "agent" /\ packages[id].createdBy # a
           THEN resp'.code = 403 /\ packages' = packages
           ELSE /\ resp'.code = 200
                /\ packages' = [packages EXCEPT ![id] = Merge(pl, @)]]_vars

\* an agent was refused on a package that another agent created
C11_Witness ==
  /\ resp.op = "UpdatePackage"
  /\ resp.code = 403
  /\ resp.data = NotYourPackage
  /\ \E id \in DOMAIN packages : packages[id].createdBy \in Agents

\* the cancellation sub-record cancel() writes
CancellationBy(a, r, now) ==
  [requestedAt |-> now, cancelledBy |-> a, cancelledAt |-> now, cancellationReason |-> r]

BookingsOf(p) == {i \in DOMAIN bookings : bookings[i].package = p}
AllCalledOff(p) ==
  /\ BookingsOf(p) # {}
  /\ \A i \in BookingsOf(p) : bookings[i].status \in {"cancelled", "rejected"}

\* C13: CancelBooking and RejectBooking leave the packages (bookedSlots
\* included) unchanged, so CreateBooking on a package whose slots are all
\* booked is refused with 400 even when all its bookings are cancelled or
\* rejected.
C13_SlotsNotReleased ==
  [][/\ \A a \in Clients, i \in BookingIds, r \in Reasons :
          CancelBooking(a, i, r) => packages' = packages
     /\ \A a \in Reviewers, i \in BookingIds, r \in Reasons :
          RejectBooking(a, i, r) => packages' = packages
     /\ \A p \in DOMAIN packages, r \in RandomSet :
          (/\ CreateBooking(Owner, p, OneAdult, r)
           /\ AllCalledOff(p)
           /\ packages[p].bookedSlots >= packages[p].totalSlots) =>
            resp'.code = 400 /\ bookings' = bookings]_vars

\* a booked-out package whose only booking is cancelled refused a new booking
C13_Witness ==
  /\ resp.op = "CreateBooking"
  /\ resp.code = 400
  /\ \E p \in DOMAIN packages :
       /\ packages[p].bookedSlots = packages[p].totalSlots
       /\ BookingsOf(p) # {}
       /\ \A i \in BookingsOf(p) : bookings[i].status = "cancelled"

\* C14: completed is terminal: once a booking's status is completed, no step
\* (cancel, approve, reject, payment verification, admin status update)
\* changes its status.
C14_CompletedIsTerminal ==
  [][\A i \in DOMAIN bookings :
       bookings[i].status = "completed" =>
         i \in DOMAIN bookings' /\ bookings'[i].status = "completed"]_vars

\* C15: Login answers 200 with a token and records lastLogin exactly when the
\* email is registered, the account is active and the password is the
\* account's; otherwise it answers 401 with no token and the users unchanged.
C15_LoginOutcome ==
  [][\A e \in Emails, p \in Passwords :
       Login(e, p) =>
         IF \E i \in DOMAIN users :
              users[i].email = e /\ users[i].isActive /\ users[i].password = Hash(p)
           THEN LET id == CHOOSE i \in DOMAIN users : users[i].email = e
                IN /\ resp'.code = 200
                   /\ resp'.data = <<generateToken(id)>>
                   /\ users' = [users EXCEPT ![id].lastLogin = clock]
                   /\ users'[id].lastLogin # NoTime
           ELSE /\ resp'.code = 401
                /\ resp'.data \in {InvalidCredentials, Deactivated}
                /\ users' = users]_vars

\* a customer who had logged in was deactivated and is refused at a later login
C15_Witness ==
  /\ resp.op = "Login"
  /\ resp.code = 401
  /\ resp.data = Deactivated
  /\ clock = 2
  /\ \E i \in DOMAIN users :
       /\ users[i].email = "a@x.com"
       /\ users[i].role = "customer"
       /\ ~users[i].isActive
       /\ users[i].lastLogin = 1

\* no two user documents share an email
UniqueEmails(us) == \A i, j \in DOMAIN us : us[i].email = us[j].email => i = j

Spent(us, n) == {k \in 1..n : \A i \in DOMAIN us : us[i].passwordResetToken # randomBytes(k)}

\* C18: RequestPasswordReset stores a new token that expires ResetWindow
\* minutes later; ResetPassword answers 400 and changes nothing unless an
\* account holds the token and it has not expired; a successful reset stores
\* the new password and clears the token; a token that was used or replaced
\* by a newer one is never accepted again.
C18_PasswordReset ==
  [][/\ \A e \in Emails :
          (RequestPasswordReset(e) /\ resp'.code = 200) =>
            \E i \in DOMAIN users :
              /\ users[i].email = e
              /\ users'[i].passwordResetToken = randomBytes(nonce')
              /\ nonce' \notin 1..nonce
              /\ users'[i].passwordResetExpires = clock + 10
     /\ \A t \in ResetTokens, p \in Passwords :
          ResetPassword(t, p) =>
            IF \E i \in DOMAIN users :
                 /\ users[i].passwordResetToken = t
                 /\ clock < users[i].passwordResetExpires
              THEN LET id == CHOOSE i \in DOMAIN users : users[i].passwordResetToken = t
                   IN /\ resp'.code = 200
                      /\ comparePassword(users'[id], p)
                      /\ \A q \in Passwords \ {p} : ~comparePassword(users'[id], q)
                      /\ users'[id].passwordResetToken = NoToken
              ELSE resp'.code = 400 /\ users' = users
     /\ Spent(users, nonce) \subseteq Spent(users', nonce')]_vars

\* after a reset with the first token a further reset request was refused
C18_Witness ==
  /\ resp.op = "ResetPassword"
  /\ resp.code = 400
  /\ nonce = 1
  /\ \E i \in DOMAIN users :
       /\ users[i].password = Hash("secret2")
       /\ users[i].passwordResetToken = NoToken

\* C19: CreatePaymentOrder answers 404 for an absent booking and 400 when
\* payment.status is completed; otherwise it asks the gateway for an order of
\* totalAmount * 100 minor units and stores the returned order id; when the
\* gateway call fails it answers 500; every refusal leaves the bookings
\* unchanged.
C19_PaymentOrder ==
  [][\A a \in Customers, id \in BookedIds, o \in GatewayOrderIds \cup {GatewayFailure} :
       CreatePaymentOrder(a, id, o) =>
         IF id \notin DOMAIN bookings
           THEN resp'.code = 404 /\ bookings' = bookings
           ELSE IF bookings[id].payment.status = "completed"
             THEN resp'.code = 400 /\ bookings' = bookings
             ELSE IF o = GatewayFailure
               THEN resp'.code = 500 /\ bookings' = bookings
               ELSE /\ resp'.code = 200
                    /\ resp'.data = <<o, 100 * bookings[id].pricing.totalAmount>>
                    /\ bookings' = [bookings EXCEPT ![id].payment.razorpayOrderId = o]]_vars

\* the gateway failed on a booking of 3540 that kept its earlier order id
C19_Witness ==
  /\ resp.op = "CreatePaymentOrder"
  /\ resp.code = 500
  /\ Len(bookings) = 1
  /\ bookings[1].pricing.totalAmount = 3540
  /\ bookings[1].payment.razorpayOrderId = <<"o", "1">>
  /\ bookings[1].payment.status = "pending"

\* C20: VerifyPayment on a booking succeeds only when the supplied gateway
\* order id equals the order id CreatePaymentOrder stored on that booking.
C20_OrderBelongsToBooking ==
  [][\A a \in Customers, i \in DOMAIN bookings, o \in GatewayOrderIds,
        p \in GatewayPaymentIds, sig \in Signatures :
       (VerifyPayment(a, i, o, p, sig) /\ resp'.code = 200) =>
         bookings[i].payment.razorpayOrderId = o]_vars

RECURSIVE TravelersBooked(_, _)
\* the travelers of the first n stored bookings of package p
TravelersBooked(p, n) ==
  IF n = 0 THEN 0
  ELSE TravelersBooked(p, n - 1)
         + (IF bookings[n].package = p THEN TotalOf(bookings[n].travelers) ELSE 0)

\* C21: the availability read, the booking insert and the slot write of
\* CreateBooking are separate steps: the read reserves nothing, the insert
\* stores the booking without looking at the package again, and the slot
\* write stores the count read at the start plus the travelers; so two
\* requests for the last slot can both succeed.
C21_StepsAreSeparate ==
  [][/\ \A r \in RequestIds, a \in Customers, p \in PkgIds, n \in TravelerCounts :
          ReadPackage(r, a, p, n) =>
            /\ packages' = packages /\ bookings' = bookings
            /\ r \in DOMAIN requests' <=>
                 (p \in DOMAIN packages /\ isAvailable(packages[p]))
     /\ \A r \in RequestIds, x \in RandomSet :
          (InsertBooking(r, x) /\ ~duplicateKey(generateBookingId(clock, x))) =>
            /\ packages' = packages
            /\ Len(bookings') = Len(bookings) + 1
            /\ bookings'[Len(bookings')].package = requests[r].packageId
     /\ \A r \in RequestIds :
          (SaveSlots(r) /\ requests[r].packageId \in DOMAIN packages) =>
            /\ bookings' = bookings
            /\ resp'.code = 201
            /\ packages'[requests[r].packageId].bookedSlots =
                 requests[r].package.bookedSlots + TotalOf(requests[r].travelers)]_vars

\* two requests for the one slot of a package have both been answered 201
C21_Witness ==
  /\ resp.op = "CreateBooking" /\ resp.code = 201
  /\ DOMAIN requests = RequestIds
  /\ \A r \in RequestIds : requests[r].pc = "done" /\ requests[r].packageId = 1
  /\ 1 \in DOMAIN packages /\ packages[1].totalSlots = 1
  /\ Len(bookings) = 2
  /\ TravelersBooked(1, Len(bookings)) > packages[1].totalSlots

\* C28: whenever no request is in progress, the bookedSlots of every package
\* equals the sum of the traveler counts of the bookings stored for it.
C28_SlotsAreExact ==
  Quiescent =>
    \A p \in DOMAIN packages : packages[p].bookedSlots = TravelersBooked(p, Len(bookings))

\* C22: a customer who is not the booking's customer is answered Forbidden by
\* get booking, create payment order, verify payment, cancel and add review,
\* the booking staying as it was; the list a customer gets holds only
\* bookings of that customer.
C22_OthersBookingsAreClosed ==
  [][/\ \A a \in Customers, id \in DOMAIN bookings :
          (/\ bookings[id].customer # a
           /\ \/ \E same \in BOOLEAN : GetBooking(a, id, same)
              \/ \E o \in GatewayOrderIds \cup {GatewayFailure} : CreatePaymentOrder(a, id, o)
              \/ \E o \in GatewayOrderIds, p \in GatewayPaymentIds, sig \in Signatures :
                   VerifyPayment(a, id, o, p, sig)
              \/ \E r \in Reasons : CancelBooking(a, id, r)
              \/ \E r \in Ratings, c \in Comments : AddReview(a, id, r, c))
            => resp'.code = 403 /\ bookings' = bookings
     /\ \A a \in Customers, st \in StatusFilters :
          ListBookings(a, st) =>
            \A i \in DOMAIN resp'.data : resp'.data[i].customer = a]_vars

\* what the guarded routes keep: get and add review refuse another
\* customer, cancel refuses one unless the booking is already cancelled, and
\* the list holds only the caller's bookings
GuardedRoutesRefuseOthers ==
  [][/\ \A a \in Customers, id \in DOMAIN bookings :
          (/\ bookings[id].customer # a
           /\ \/ \E same \in BOOLEAN : GetBooking(a, id, same)
              \/ \E r \in Reasons : CancelBooking(a, id, r)
              \/ \E r \in Ratings, c \in Comments : AddReview(a, id, r, c))
            => /\ bookings' = bookings
               /\ resp'.code = IF resp'.op = "CancelBooking" /\ bookings[id].status = "cancelled"
                                 THEN 400 ELSE 403
     /\ \A a \in Customers, st \in StatusFilters :
          ListBookings(a, st) =>
            \A i \in DOMAIN resp'.data : resp'.data[i].customer = a]_vars

\* C23: a package that bookings reference is never deleted: after any
\* sequence of CreateBooking and DeletePackage the package of every stored
\* booking is a stored package.
C23_BookedPackageIsKept ==
  \A i \in DOMAIN bookings : bookings[i].package \in DOMAIN packages

\* PH, then the six digits of a date, then four more digits
WellFormedBookingId(id) ==
  /\ Len(id) = 12
  /\ id[1] = "P" /\ id[2] = "H"
  /\ \A k \in 3..12 : id[k] \in 0..9
  /\ (10 * id[5] + id[6]) \in 1..12
  /\ (10 * id[7] + id[8]) \in 1..31

\* C24: every stored booking has an id PH + YYMMDD + four digits, given to it
\* when it is created (the date being the day of creation), and no later
\* operation changes the id of a stored booking.
C24_BookingIdIsStable ==
  [][\A i \in DOMAIN bookings' :
       /\ WellFormedBookingId(bookings'[i].bookingId)
       /\ IF i \in DOMAIN bookings
            THEN bookings'[i].bookingId = bookings[i].bookingId
            ELSE LET id == bookings'[i].bookingId
                 IN /\ 10 * id[3] + id[4] = DateOf(clock).year % 100
                    /\ 10 * id[5] + id[6] = DateOf(clock).month
                    /\ 10 * id[7] + id[8] = DateOf(clock).day]_vars

\* a booking made on the first day still has its id after it was paid and
\* then cancelled
C24_Witness ==
  /\ Len(bookings) = 1
  /\ bookings[1].bookingId = <<"P", "H", 2, 6, 1, 1, 0, 1, 0, 0, 4, 2>>
  /\ bookings[1].payment.status = "completed"
  /\ bookings[1].status = "cancelled"
  /\ resp.op = "CancelBooking" /\ resp.code = 200

\* the entries of a list of sub-documents that belong to the user
EntriesOf(list, userId) == {i \in DOMAIN list : list[i].user = userId}

\* C25: after addHelpfulVote the list of votes holds at most one entry per
\* user, the voter's entry carries the vote just cast, and a vote by a user
\* who has voted before changes only that entry and never the length.
C25_OneVotePerUser ==
  [][\A u \in Voters, h \in BOOLEAN :
       addHelpfulVote(u, h) =>
         /\ \A v \in Voters : Cardinality(EntriesOf(review'.helpful, v)) <= 1
         /\ \E i \in DOMAIN review'.helpful :
              review'.helpful[i] = [user |-> u, helpful |-> h]
         /\ \A i \in DOMAIN review.helpful :
              review.helpful[i].user # u => review'.helpful[i] = review.helpful[i]
         /\ Len(review'.helpful) =
              Len(review.helpful) + (IF EntriesOf(review.helpful, u) = {} THEN 1 ELSE 0)
         /\ review'.reported = review.reported]_vars

\* c1 voted helpful and later not helpful, c2 voted in between
C25_Witness ==
  review.helpful = <<[user |-> "c1", helpful |-> FALSE], [user |-> "c2", helpful |-> TRUE]>>

\* C26: after reportReview the list of reports holds at most one entry per
\* user; the first report of a user is stored with its reason, and a later
\* report by the same user leaves the list as it was.
C26_FirstReportIsKept ==
  [][\A u \in Customers, r \in ReportReasons :
       reportReview(u, r) =>
         /\ \A v \in Customers : Cardinality(EntriesOf(review'.reported, v)) <= 1
         /\ IF EntriesOf(review.reported, u) = {}
              THEN review'.reported =
                     Append(review.reported, [user |-> u, reason |-> r, reportedAt |-> clock])
              ELSE review'.reported = review.reported
         /\ review'.helpful = review.helpful]_vars

\* both customers have reported, the first of them on an earlier day
C26_Witness ==
  /\ clock = 2
  /\ review.reported = <<[user |-> "c2", reason |-> "fake", reportedAt |-> 1],
                         [user |-> "c1", reason |-> "spam", reportedAt |-> 2]>>

\* a package that is not approved and carries a reviewer
Rejected(pkg) == ~pkg.isApproved /\ pkg.approvedBy # NoUser

\* C27: RejectPackage by an admin answers BadRequest and changes nothing when
\* the package is already rejected (not approved, reviewer recorded); on a
\* never-reviewed or an approved package it succeeds, sets isApproved = false
\* and records the admin and the time; a rejected package can be approved
\* afterwards.
C27_RejectPackage ==
  [][\A a \in Admins, id \in DOMAIN packages :
       /\ RejectPackage(a, id) =>
            IF Rejected(packages[id])
              THEN resp'.code = 400 /\ packages' = packages
              ELSE /\ resp'.code = 200
                   /\ packages' = [packages EXCEPT ![id].isApproved = FALSE,
                                                   ![id].approvedBy = a,
                                                   ![id].approvedAt = clock]
                   /\ Rejected(packages'[id])
       /\ (ApprovePackage(a, id) /\ Rejected(packages[id])) =>
            /\ resp'.code = 200
            /\ packages'[id].isApproved
            /\ packages'[id].approvedBy = a]_vars

\* a second rejection of a package that the admin had rejected was refused
C27_Witness ==
  /\ resp.op = "RejectPackage" /\ resp.code = 400
  /\ 1 \in DOMAIN packages
  /\ ~packages[1].isApproved
  /\ packages[1].approvedBy = "ad"

\* C29: once the payment status of a booking is completed, no operation
\* changes it, and CreatePaymentOrder on that booking is refused and stores
\* no order id.
C29_CompletedPaymentStays ==
  [][\A i \in DOMAIN bookings :
       bookings[i].payment.status = "completed" =>
         /\ i \in DOMAIN bookings'
         /\ bookings'[i].payment.status = "completed"
         /\ bookings'[i].payment.razorpayOrderId = bookings[i].payment.razorpayOrderId
         /\ \A a \in Customers, o \in GatewayOrderIds \cup {GatewayFailure} :
              CreatePaymentOrder(a, i, o) => resp'.code = 400 /\ bookings' = bookings]_vars

\* a paid booking was cancelled, paid again and then refused a new order
C29_Witness ==
  /\ resp.op = "CreatePaymentOrder" /\ resp.code = 400
  /\ Len(bookings) = 1
  /\ bookings[1].payment.status = "completed"
  /\ bookings[1].payment.razorpayOrderId = <<"o", "2">>
  /\ bookings[1].cancellation.cancelledBy = Owner
  /\ bookings[1].status = "confirmed"

\* C30: ListPackages applies its filters conjunctively: every returned
\* package matches each filter that was supplied; with both destination and
\* search supplied it matches both.
C30_FiltersAreConjunctive ==
  [][\A q \in Queries :
       ListPackages(q) =>
         \A i \in DOMAIN resp'.data :
           LET p == packages[resp'.data[i]]
           IN /\ q.category # Absent => p.info.category = q.category[1]
              /\ q.destination # Absent => destinationOr(q, p)
              /\ q.search # Absent => searchOr(q, p)
              /\ q.minPrice # Absent => p.basePrice >= q.minPrice[1]
              /\ q.maxPrice # Absent => p.basePrice <= q.maxPrice[1]
              /\ q.duration # Absent => p.info.days <= q.duration[1]]_vars
====
